---- MODULE Spec2Model ----
(***************************************************************************)
(* Sales dashboard (App.tsx + services/dataProcessor): the data pipeline   *)
(* mapProductCategory -> processData -> filterData -> aggregateByField /   *)
(* getTrendData, and the App component's session, filter and dataset state.*)
(*                                                                         *)
(* Strings that the code only compares for equality (department, role,     *)
(* category ...) are TLA+ strings.  Strings that the code searches with    *)
(* String.prototype.includes, pads or parses (productName, customerName,   *)
(* year and month texts) are sequences of one-character strings.           *)
(* JavaScript numbers are integers, with NaN as a reserved value that all  *)
(* arithmetic and comparisons go through the Js* operators for.            *)
(***************************************************************************)
EXTENDS Integers, Sequences, FiniteSets, Bags

VARIABLES
    \* ---- App component state (useState cells of App.tsx) ----
    user,            \* UserSession | null
    loginUser,       \* login form: account text
    loginPass,       \* login form: password text
    rawData,         \* the raw dataset (RawSalesData[])
    processedData,   \* the working dataset (ProcessedSalesData[])
    isCustomData,    \* custom-data flag
    years,           \* available years (number[])
    filters,         \* FilterState
    reads,           \* the bag of FileReader reads in flight (their onload not yet run)
    \* ---- environment ----
    CATEGORY_RULES,  \* the configured rule list of ../constants
    utcOffset,       \* host time zone, hours east of UTC
    \* ---- one call of a pure function of dataProcessor ----
    pc,              \* "idle" | "ready" | "done"
    call,            \* the arguments of the call
    ret              \* its return value

appVars == <<user, loginUser, loginPass, rawData, processedData, isCustomData, years, filters, reads>>
envVars == <<CATEGORY_RULES, utcOffset>>
fnVars  == <<pc, call, ret>>
vars    == <<appVars, envVars, fnVars>>

-----------------------------------------------------------------------------
(* Bounds of the model *)

\* longest dataset handed to processData and filterData
MaxLen == 2
\* longest dataset handed to aggregateByField and getTrendData
MaxAggLen == 3
\* longest product name handed to the classifier
MaxName == 3

-----------------------------------------------------------------------------
(* JavaScript values *)

NaN == -999999

IsNaN(x) == x = NaN

JsAdd(a, b) == IF IsNaN(a) \/ IsNaN(b) THEN NaN ELSE a + b

JsMul(a, b) == IF IsNaN(a) \/ IsNaN(b) THEN NaN ELSE a * b

\* a < b and a > b are false as soon as one side is NaN
JsLt(a, b) == ~IsNaN(a) /\ ~IsNaN(b) /\ a < b

JsGt(a, b) == ~IsNaN(a) /\ ~IsNaN(b) /\ a > b

Range(s) == {s[i] : i \in 1..Len(s)}

RECURSIVE SeqSum(_)
SeqSum(s) == IF s = <<>> THEN 0 ELSE s[1] + SeqSum(Tail(s))

\* all sequences over S of length at most n
SeqsUpTo(S, n) == UNION {[1..k -> S] : k \in 0..n}

\* String.prototype.includes on character sequences
Includes(s, k) ==
    \E i \in 0..(Len(s) - Len(k)) : \A j \in 1..Len(k) : s[i + j] = k[j]

DigitChars == <<"0", "1", "2", "3", "4", "5", "6", "7", "8", "9">>

DigitChar(d) == DigitChars[d + 1]

IsDigitChar(c) == c \in Range(DigitChars)

DigitVal(c) == (CHOOSE i \in 1..10 : DigitChars[i] = c) - 1

\* Number.prototype.toString for a non-negative integer
RECURSIVE NumToString(_)
NumToString(n) ==
    IF n < 10 THEN <<DigitChar(n)>>
    ELSE Append(NumToString(n \div 10), DigitChar(n % 10))

\* String.prototype.padStart(2, '0')
PadStart2(s) == IF Len(s) >= 2 THEN s ELSE IF Len(s) = 1 THEN <<"0">> \o s ELSE <<"0", "0">>

\* the value of a run of digit characters
RECURSIVE DigitsValue(_)
DigitsValue(s) ==
    IF s = <<>> THEN 0 ELSE DigitsValue(SubSeq(s, 1, Len(s) - 1)) * 10 + DigitVal(s[Len(s)])

\* the longest prefix of s made of digit characters
RECURSIVE DigitPrefix(_)
DigitPrefix(s) ==
    IF s = <<>> \/ ~IsDigitChar(s[1]) THEN <<>> ELSE <<s[1]>> \o DigitPrefix(Tail(s))

\* parseInt(text): the leading digits, NaN when there is none
ParseInt(s) == IF DigitPrefix(s) = <<>> THEN NaN ELSE DigitsValue(DigitPrefix(s))

\* lexicographic order of character sequences of digit characters (Array.prototype.sort
\* without a comparator, on UTF-16 code units)
RECURSIVE StrLess(_, _)
StrLess(a, b) ==
    IF b = <<>> THEN FALSE
    ELSE IF a = <<>> THEN TRUE
    ELSE IF a[1] # b[1] THEN DigitVal(a[1]) < DigitVal(b[1])
    ELSE StrLess(Tail(a), Tail(b))

-----------------------------------------------------------------------------
(* ../constants: the category rules *)

DEFAULT_CATEGORY == "Uncategorized"

DEFAULT_SUB_CATEGORY == "Other"

\* rules a configuration may hold; the first two are the example of the design notes
RuleUniverse ==
    { [keyword |-> <<"J">>,      category |-> "Sauce", subCategory |-> "Soy"],
      [keyword |-> <<"Y">>,      category |-> "Oil",   subCategory |-> "Cooking"],
      [keyword |-> <<"J", "Y">>, category |-> "Sauce", subCategory |-> "SoySauce"] }

ExampleRules ==
    << [keyword |-> <<"J">>, category |-> "Sauce", subCategory |-> "Soy"],
       [keyword |-> <<"Y">>, category |-> "Oil",   subCategory |-> "Cooking"] >>

\* the configured lists: the rules of RuleUniverse in any order, none twice
RuleLists ==
    {l \in SeqsUpTo(RuleUniverse, Cardinality(RuleUniverse)) :
        \A i, j \in 1..Len(l) : i # j => l[i] # l[j]}

-----------------------------------------------------------------------------
(* dataProcessor: mapProductCategory, processData, getAvailableYears *)

\* the loop without its early return: the last matching rule wins
RECURSIVE ScanRulesLastMatch(_, _, _)
ScanRulesLastMatch(rules, productName, i) ==
    IF i > Len(rules)
    THEN [category |-> DEFAULT_CATEGORY, subCategory |-> DEFAULT_SUB_CATEGORY]
    ELSE LET later == ScanRulesLastMatch(rules, productName, i + 1)
         IN  IF later.category # DEFAULT_CATEGORY \/ ~Includes(productName, rules[i].keyword)
             THEN later
             ELSE [category |-> rules[i].category, subCategory |-> rules[i].subCategory]

\* the for loop of mapProductCategory from rule i on
RECURSIVE ScanRules(_, _, _)
ScanRules(rules, productName, i) ==
    IF i > Len(rules)
    THEN [category |-> DEFAULT_CATEGORY, subCategory |-> DEFAULT_SUB_CATEGORY]
    ELSE IF Includes(productName, rules[i].keyword)
         THEN [category |-> rules[i].category, subCategory |-> rules[i].subCategory]
         ELSE ScanRules(rules, productName, i + 1)

mapProductCategory(productName) == ScanRules(CATEGORY_RULES, productName, 1)

\* a raw date text: <<"iso", y, m, d>> is the text YYYY-MM-DD, <<"empty">> the empty
\* text, <<"bad">> a non-empty text that is no date
IsIsoDate(date) == date[1] = "iso"

\* the local year and month of new Date(text): the text YYYY-MM-DD is midnight UTC of
\* that day and the getters answer in local time, so west of UTC they see the evening
\* before
LocalDay(date) ==
    IF utcOffset >= 0 \/ date[4] > 1 THEN [y |-> date[2], m |-> date[3]]
    ELSE IF date[3] > 1 THEN [y |-> date[2], m |-> date[3] - 1]
    ELSE [y |-> date[2] - 1, m |-> 12]

getFullYear(date) == IF IsIsoDate(date) THEN LocalDay(date).y ELSE NaN

\* getMonth() is 0-based
getMonth(date) == IF IsIsoDate(date) THEN LocalDay(date).m - 1 ELSE NaN

\* one element of processData's map
Enrich(item) ==
    LET cat == mapProductCategory(item.productName)
    IN  [ businessUnit |-> item.businessUnit,
          department   |-> item.department,
          salesperson  |-> item.salesperson,
          date         |-> item.date,
          customerName |-> item.customerName,
          companyName  |-> item.companyName,
          sku          |-> item.sku,
          productName  |-> item.productName,
          quantity     |-> item.quantity,
          amount       |-> item.amount,
          category     |-> cat.category,
          subCategory  |-> cat.subCategory,
          year         |-> getFullYear(item.date),
          month        |-> JsAdd(getMonth(item.date), 1) ]

processData(raw) == [i \in 1..Len(raw) |-> Enrich(raw[i])]

\* the elements of a finite set of integers in ascending order (the sort of getTrendData)
RECURSIVE SortAsc(_)
SortAsc(S) ==
    IF S = {} THEN <<>>
    ELSE LET lo == CHOOSE x \in S : \A y \in S : x <= y
         IN  <<lo>> \o SortAsc(S \ {lo})

\* the values of s without repetition, in the order of their first occurrence: the
\* iteration order of new Set(s)
RECURSIVE SetOrder(_)
SetOrder(s) ==
    IF s = <<>> THEN <<>>
    ELSE LET before == SetOrder(SubSeq(s, 1, Len(s) - 1))
         IN  IF s[Len(s)] \in Range(before) THEN before ELSE Append(before, s[Len(s)])

\* x put into the ascending run sorted by the comparator (a, b) => a - b: x passes the
\* elements the comparator finds greater and stops at the first one it does not; a NaN
\* difference counts as 0
InsertAsc(sorted, x) ==
    LET stop == {j \in 1..Len(sorted) : ~JsGt(sorted[j], x)}
        k    == IF stop = {} THEN 0 ELSE CHOOSE j \in stop : \A i \in stop : i <= j
    IN  SubSeq(sorted, 1, k) \o <<x>> \o SubSeq(sorted, k + 1, Len(sorted))

\* Array.prototype.sort((a, b) => a - b), a stable sort
RECURSIVE SortNumbers(_)
SortNumbers(s) ==
    IF s = <<>> THEN <<>>
    ELSE InsertAsc(SortNumbers(SubSeq(s, 1, Len(s) - 1)), s[Len(s)])

getAvailableYears(data) == SortNumbers(SetOrder([i \in 1..Len(data) |-> data[i].year]))

-----------------------------------------------------------------------------
(* dataProcessor: filterData *)

Undefined == "<undefined>"

\* truthiness of an optional text
Truthy(s) == s # Undefined /\ s # ""

\* the date range test with the end bound excluded
OutOfDateRangeEndExclusive(item, f) ==
    LET itemDateVal  == JsAdd(JsMul(item.year, 100), item.month)
        startDateVal == JsAdd(JsMul(ParseInt(f.startYear), 100), ParseInt(f.startMonth))
        endDateVal   == JsAdd(JsMul(ParseInt(f.endYear), 100), ParseInt(f.endMonth))
    IN  JsLt(itemDateVal, startDateVal) \/ ~JsLt(itemDateVal, endDateVal)

\* the date range test written as "not inside the range": !(start <= item && item <= end)
OutOfDateRangeUnlessInside(item, f) ==
    LET itemDateVal  == JsAdd(JsMul(item.year, 100), item.month)
        startDateVal == JsAdd(JsMul(ParseInt(f.startYear), 100), ParseInt(f.startMonth))
        endDateVal   == JsAdd(JsMul(ParseInt(f.endYear), 100), ParseInt(f.endMonth))
    IN  ~(~JsLt(itemDateVal, startDateVal) /\ ~JsGt(itemDateVal, endDateVal)
          /\ ~IsNaN(itemDateVal) /\ ~IsNaN(startDateVal) /\ ~IsNaN(endDateVal))

\* lines 35-39: the date range test, true when the record is rejected
OutOfDateRange(item, f) ==
    LET itemDateVal  == JsAdd(JsMul(item.year, 100), item.month)
        startDateVal == JsAdd(JsMul(ParseInt(f.startYear), 100), ParseInt(f.startMonth))
        endDateVal   == JsAdd(JsMul(ParseInt(f.endYear), 100), ParseInt(f.endMonth))
    IN  JsLt(itemDateVal, startDateVal) \/ JsGt(itemDateVal, endDateVal)

\* the constraint applied only when the explicit department filter is not set
FailsConstraintUnlessFiltered(item, f, deptConstraint) ==
    /\ ~(Truthy(f.department) /\ f.department # "All")
    /\ Truthy(deptConstraint) /\ item.department # deptConstraint

\* line 42: the session's department constraint, true when the record is rejected
FailsConstraint(item, f, deptConstraint) ==
    Truthy(deptConstraint) /\ item.department # deptConstraint

\* the facets of lines 45-49
FacetFields == {"businessUnit", "department", "salesperson", "category", "subCategory"}

\* a facet filter for which the empty text is a value like any other
FailsFacetEmptyRestricts(value, wanted) == wanted # Undefined /\ wanted # "All" /\ value # wanted

\* lines 45-49: one facet filter, true when the record is rejected
FailsFacet(value, wanted) == Truthy(wanted) /\ wanted # "All" /\ value # wanted

\* a text filter that asks for the whole text
FailsSearchEquality(text, wanted) == wanted # <<>> /\ text # wanted

\* lines 52-53: one text filter, true when the record is rejected
FailsSearch(text, wanted) == wanted # <<>> /\ ~Includes(text, wanted)

\* the predicate of data.filter
FilterKeeps(item, f, deptConstraint) ==
    /\ ~OutOfDateRange(item, f)
    /\ ~FailsConstraint(item, f, deptConstraint)
    /\ ~FailsFacet(item.businessUnit, f.businessUnit)
    /\ ~FailsFacet(item.department, f.department)
    /\ ~FailsFacet(item.salesperson, f.salesperson)
    /\ ~FailsFacet(item.category, f.category)
    /\ ~FailsFacet(item.subCategory, f.subCategory)
    /\ ~FailsSearch(item.customerName, f.customerName)
    /\ ~FailsSearch(item.productName, f.productName)

\* a filter that returns the records it keeps last to first
RECURSIVE FilterSeqReversed(_, _, _)
FilterSeqReversed(data, f, deptConstraint) ==
    IF data = <<>> THEN <<>>
    ELSE FilterSeqReversed(Tail(data), f, deptConstraint)
         \o (IF FilterKeeps(data[1], f, deptConstraint) THEN <<data[1]>> ELSE <<>>)

\* Array.prototype.filter
RECURSIVE FilterSeq(_, _, _)
FilterSeq(data, f, deptConstraint) ==
    IF data = <<>> THEN <<>>
    ELSE (IF FilterKeeps(data[1], f, deptConstraint) THEN <<data[1]>> ELSE <<>>)
         \o FilterSeq(Tail(data), f, deptConstraint)

\* a filter that also drops the first record it keeps
filterDataDropsFirst(data, f, deptConstraint) ==
    LET kept == FilterSeq(data, f, deptConstraint)
    IN  IF kept = <<>> THEN <<>> ELSE Tail(kept)

filterData(data, f, deptConstraint) == FilterSeq(data, f, deptConstraint)

-----------------------------------------------------------------------------
(* dataProcessor: aggregateByField *)

\* the index of key among the entries of a Map (insertion order), 0 when it has none
MapIndex(entries, key) ==
    IF \E i \in 1..Len(entries) : entries[i].name = key
    THEN CHOOSE i \in 1..Len(entries) : entries[i].name = key
    ELSE 0

\* map.set(key, val): the amount replaces the sum so far
MapAddOverwrite(entries, key, val) ==
    LET i == MapIndex(entries, key)
    IN  IF i = 0 THEN Append(entries, [name |-> key, value |-> val])
        ELSE [entries EXCEPT ![i].value = val]

\* map.set(key, (map.get(key) || 0) + val): a new key goes last, an old one keeps its place
MapAdd(entries, key, val) ==
    LET i == MapIndex(entries, key)
    IN  IF i = 0 THEN Append(entries, [name |-> key, value |-> 0 + val])
        ELSE [entries EXCEPT ![i].value = @ + val]

\* the forEach of aggregateByField over data[1..n]: the Map and the running total
RECURSIVE AggLoop(_, _, _)
AggLoop(data, field, n) ==
    IF n = 0 THEN [map |-> <<>>, total |-> 0]
    ELSE LET prev == AggLoop(data, field, n - 1)
             d    == data[n]
         IN  [map   |-> MapAdd(prev.map, d[field], d.amount),
              total |-> prev.total + d.amount]

\* total !== 0 ? (value / total) * 100 : 0
PercentageNonZeroTotal(value, total) ==
    IF total > 0 THEN [num |-> value * 100, den |-> total]
    ELSE IF total < 0 THEN [num |-> 0 - value * 100, den |-> 0 - total]
    ELSE [num |-> 0, den |-> 1]

\* total > 0 ? (value / total) * 100 : 0, as the exact fraction num / den
Percentage(value, total) ==
    IF total > 0 THEN [num |-> value * 100, den |-> total] ELSE [num |-> 0, den |-> 1]

\* a point goes before the points already placed that have its value
InsertDescBeforeEqual(sorted, p) ==
    LET k == Cardinality({i \in 1..Len(sorted) : sorted[i].value > p.value})
    IN  SubSeq(sorted, 1, k) \o <<p>> \o SubSeq(sorted, k + 1, Len(sorted))

\* Array.prototype.sort((a, b) => b.value - a.value): stable, so a point goes after
\* every point already placed whose value is not smaller
InsertDesc(sorted, p) ==
    LET k == Cardinality({i \in 1..Len(sorted) : sorted[i].value >= p.value})
    IN  SubSeq(sorted, 1, k) \o <<p>> \o SubSeq(sorted, k + 1, Len(sorted))

RECURSIVE SortDesc(_, _)
SortDesc(points, n) ==
    IF n = 0 THEN <<>> ELSE InsertDesc(SortDesc(points, n - 1), points[n])

aggregateByField(data, field) ==
    LET acc    == AggLoop(data, field, Len(data))
        points == [i \in 1..Len(acc.map) |->
                     [name       |-> acc.map[i].name,
                      value      |-> acc.map[i].value,
                      percentage |-> Percentage(acc.map[i].value, acc.total)]]
    IN  SortDesc(points, Len(points))

-----------------------------------------------------------------------------
(* dataProcessor: getTrendData *)

NaNText == <<"N", "a", "N">>

\* Number.prototype.toString
NumberToString(n) == IF IsNaN(n) THEN NaNText ELSE NumToString(n)

\* the month rows of the skeleton, in the order the init loop creates them
MonthKeys == [m \in 1..12 |-> PadStart2(NumToString(m))]

\* a text that is a canonical array index ("10" but not "01")
IsIndexKey(k) == k # <<>> /\ (\A i \in 1..Len(k) : IsDigitChar(k[i])) /\ (k[1] # "0" \/ Len(k) = 1)

\* the subsequence of s whose elements are in S
RECURSIVE SelectIn(_, _)
SelectIn(s, S) ==
    IF s = <<>> THEN <<>>
    ELSE (IF s[1] \in S THEN <<s[1]>> ELSE <<>>) \o SelectIn(Tail(s), S)

\* the elements of a finite set of index keys by ascending number
RECURSIVE SortIndexKeys(_)
SortIndexKeys(S) ==
    IF S = {} THEN <<>>
    ELSE LET lo == CHOOSE x \in S : \A y \in S : DigitsValue(x) <= DigitsValue(y)
         IN  <<lo>> \o SortIndexKeys(S \ {lo})

\* Object.keys of an object built by inserting keys in the order created: the index
\* keys by ascending number, then the other keys in insertion order
ObjectKeys(created) ==
    SortIndexKeys({k \in Range(created) : IsIndexKey(k)})
        \o SelectIn(created, {k \in Range(created) : ~IsIndexKey(k)})

\* Array.prototype.sort() of distinct texts
RECURSIVE SortStrings(_)
SortStrings(S) ==
    IF S = {} THEN <<>>
    ELSE LET lo == CHOOSE x \in S : \A y \in S \ {x} : StrLess(x, y)
         IN  <<lo>> \o SortStrings(S \ {lo})

\* !v for a number v
Falsy(v) == v = 0 \/ IsNaN(v)

\* row[yStr] = amount
CellAddOverwrite(row, yStr, amount) ==
    [k \in (DOMAIN row) \cup {yStr} |-> IF k = yStr THEN amount ELSE row[k]]

\* if (!row[yStr]) row[yStr] = 0; row[yStr] += amount
CellAdd(row, yStr, amount) ==
    LET old == IF yStr \in DOMAIN row /\ ~Falsy(row[yStr]) THEN row[yStr] ELSE 0
    IN  [k \in (DOMAIN row) \cup {yStr} |-> IF k = yStr THEN JsAdd(old, amount) ELSE row[k]]

\* Object.keys(monthlyMap) as it comes, not sorted
SortedKeysUnsorted(keys) == keys

\* Object.keys(monthlyMap).sort()
SortedKeys(keys) == SortStrings(Range(keys))

\* the forEach of getTrendData over data[1..n]: monthlyMap, yearsFound (insertion
\* order) and whether monthlyMap[mStr][yStr] threw for want of a row mStr
RECURSIVE TrendLoop(_, _)
TrendLoop(data, n) ==
    IF n = 0
    THEN [monthlyMap |-> [k \in Range(MonthKeys) |-> <<>>], yearsFound |-> <<>>, threw |-> FALSE]
    ELSE LET prev == TrendLoop(data, n - 1)
             d    == data[n]
             mStr == PadStart2(NumberToString(d.month))
             yStr == NumberToString(d.year)
             found == IF d.year \in Range(prev.yearsFound) THEN prev.yearsFound
                      ELSE Append(prev.yearsFound, d.year)
         IN  IF prev.threw THEN prev
             ELSE IF mStr \notin DOMAIN prev.monthlyMap
             THEN [prev EXCEPT !.yearsFound = found, !.threw = TRUE]
             ELSE [monthlyMap |-> [prev.monthlyMap EXCEPT ![mStr] = CellAdd(@, yStr, d.amount)],
                   yearsFound |-> found,
                   threw      |-> FALSE]

MonthLabel(month) == Append(month, "yue")

getTrendData(data) ==
    LET acc         == TrendLoop(data, Len(data))
        sortedNums  == SortAsc(Range(acc.yearsFound))
        sortedYears == [i \in 1..Len(sortedNums) |-> NumberToString(sortedNums[i])]
        months      == SortedKeys(ObjectKeys(MonthKeys))
        chartData   == [i \in 1..Len(months) |->
                          [month  |-> MonthLabel(months[i]),
                           values |-> [y \in Range(sortedYears) |->
                                         LET v == acc.monthlyMap[months[i]][y]
                                         IN  IF y \in DOMAIN acc.monthlyMap[months[i]] /\ ~Falsy(v)
                                             THEN v ELSE 0]]]
    IN  IF acc.threw THEN [threw |-> TRUE, chartData |-> <<>>, years |-> <<>>]
        ELSE [threw |-> FALSE, chartData |-> chartData, years |-> sortedYears]

-----------------------------------------------------------------------------
(* App.tsx: handleExportAggregated *)

\* The document is the sequence of its lines after the byte-order marker, each line a
\* tuple of its cells: <<"title", t>>, <<"header", name column>>, <<"row", rank, name,
\* amount, percentage>>, <<"blank">>.

BOM == <<"bom">>

\* the six appendSection calls in the order of the code: title, name column, field of
\* the aggregation
ExportSections ==
    << [title |-> "department share",     column |-> "department",   field |-> "department"],
       [title |-> "salesperson ranking",  column |-> "salesperson",  field |-> "salesperson"],
       [title |-> "category share",       column |-> "category",     field |-> "category"],
       [title |-> "sub-category ranking", column |-> "sub-category", field |-> "subCategory"],
       [title |-> "customer ranking",     column |-> "customer",     field |-> "customerName"],
       [title |-> "product ranking",      column |-> "product",      field |-> "productName"] >>

\* rows numbered with the 0-based index of forEach
SectionRowsZeroBased(points) ==
    [i \in 1..Len(points) |->
        <<"row", i - 1, points[i].name, points[i].value, points[i].percentage>>]

\* data.forEach((item, index) => ...): one row per point, ranked index + 1
SectionRows(points) ==
    [i \in 1..Len(points) |->
        <<"row", i, points[i].name, points[i].value, points[i].percentage>>]

appendSection(csvContent, title, points, column) ==
    csvContent \o << <<"title", title>>, <<"header", column>> >>
               \o SectionRows(points)
               \o << <<"blank">>, <<"blank">> >>

\* csvContent after the first n appendSection calls over the records on display
RECURSIVE ExportContent(_, _)
ExportContent(filtered, n) ==
    IF n = 0 THEN <<BOM>>
    ELSE appendSection(ExportContent(filtered, n - 1), ExportSections[n].title,
                       aggregateByField(filtered, ExportSections[n].field),
                       ExportSections[n].column)

\* where no document is produced
NoDocument == <<>>

\* the document handed to the download, NoDocument when the handler returns at once
handleExportAggregated(session, filtered) ==
    IF session.role # "admin" THEN NoDocument
    ELSE ExportContent(filtered, Len(ExportSections))

-----------------------------------------------------------------------------
(* App.tsx: the state after construction *)

\* user === null
NoUser == [role |-> "null", username |-> "", departmentFilter |-> Undefined]

InitialFilters ==
    [ startYear    |-> <<>>,
      startMonth   |-> <<"1">>,
      endYear      |-> <<>>,
      endMonth     |-> <<"1", "2">>,
      businessUnit |-> "All",
      department   |-> "All",
      salesperson  |-> "All",
      category     |-> "All",
      subCategory  |-> "All",
      customerName |-> <<>>,
      productName  |-> <<>> ]

Constructed ==
    /\ user = NoUser
    /\ loginUser = ""
    /\ loginPass = ""
    /\ rawData = <<>>
    /\ processedData = <<>>
    /\ isCustomData = FALSE
    /\ years = <<>>
    /\ filters = InitialFilters
    /\ reads = EmptyBag

-----------------------------------------------------------------------------
(* Inputs of the pure functions *)

BaseRaw ==
    [ businessUnit |-> "BU1",
      department   |-> "A",
      salesperson  |-> "S1",
      date         |-> <<"iso", 2023, 1, 15>>,
      customerName |-> <<"c">>,
      companyName  |-> "Co",
      sku          |-> "K1",
      productName  |-> <<"J">>,
      quantity     |-> 1,
      amount       |-> 1 ]

BaseItem ==
    [ businessUnit |-> "BU1",
      department   |-> "A",
      salesperson  |-> "S1",
      date         |-> <<"iso", 2023, 1, 15>>,
      customerName |-> <<"c">>,
      companyName  |-> "Co",
      sku          |-> "K1",
      productName  |-> <<"J">>,
      quantity     |-> 1,
      amount       |-> 1,
      category     |-> "Sauce",
      subCategory  |-> "Soy",
      year         |-> 2023,
      month        |-> 1 ]

NameChars == {"J", "Y", "X"}

ProductNames == SeqsUpTo(NameChars, MaxName)

\* raw records for processData: product names that match no rule, one rule, two rules
RawItems ==
    { [BaseRaw EXCEPT !.productName = n, !.date = d] :
        n \in {<<>>, <<"X">>, <<"Y", "J">>, <<"J", "Y">>},
        d \in {<<"iso", 2023, 1, 15>>, <<"iso", 2024, 1, 1>>} }

\* records for filterData: every year and month around the bounds of DateFilters, and
\* the departments of DeptFilters
FilterItems ==
    { [BaseItem EXCEPT !.year = y, !.month = m] : y \in {2023, 2024}, m \in {1, 2, 12} }
        \cup { [BaseItem EXCEPT !.department = d] : d \in {"B", ""} }
        \cup { [BaseItem EXCEPT !.businessUnit = "BU2", !.category = "Oil"],
               [BaseItem EXCEPT !.salesperson = "S2", !.subCategory = "Veg"] }

WideOpen ==
    [InitialFilters EXCEPT !.startYear = NumToString(2023), !.startMonth = NumToString(1),
                           !.endYear = NumToString(2024), !.endMonth = NumToString(12)]

DateFilters ==
    { [InitialFilters EXCEPT !.startYear = NumToString(sy), !.startMonth = NumToString(sm),
                             !.endYear = NumToString(ey), !.endMonth = NumToString(em)] :
        sy \in {2023, 2024}, sm \in {1, 2, 12}, ey \in {2023, 2024}, em \in {1, 2, 12} }

DeptFilters == { [WideOpen EXCEPT !.department = d] : d \in {"All", "", "A", "B"} }

\* for each facet a value that BaseItem does not have
OtherValue ==
    [businessUnit |-> "BU2", department |-> "B", salesperson |-> "S2",
     category |-> "Oil", subCategory |-> "Veg"]

\* one facet set to the sentinel, the empty text, BaseItem's value or the other value
FacetFilters ==
    UNION { { [WideOpen EXCEPT ![field] = v] : v \in {"All", "", BaseItem[field], OtherValue[field]} } :
              field \in FacetFields }

FilterStates == DateFilters \cup DeptFilters \cup FacetFilters

DeptConstraints == {Undefined, "", "A", "B"}

\* records for aggregateByField: three departments in two categories, signed amounts
CategoryOf(dept) == IF dept = "B" THEN "Oil" ELSE "Sauce"

AggItems ==
    { [BaseItem EXCEPT !.department = d, !.category = CategoryOf(d), !.amount = a] :
        d \in {"A", "B", "C"}, a \in {-1, 0, 1, 2} }

AggFields == {"department", "category"}

\* records for getTrendData
TrendItems ==
    { [BaseItem EXCEPT !.year = y, !.month = m, !.amount = a] :
        y \in {2021, 2022, 2023}, m \in {3, 10}, a \in {-1, 2} }

\* records on display for the export: two departments, salespersons, categories,
\* customers and products, amounts that rank them differently
ExportItems ==
    { [BaseItem EXCEPT !.amount = 2],
      [BaseItem EXCEPT !.department = "B", !.salesperson = "S2", !.amount = 3],
      [BaseItem EXCEPT !.category = "Oil", !.subCategory = "Veg", !.productName = <<"Y">>,
                       !.amount = 1],
      [BaseItem EXCEPT !.department = "B", !.customerName = <<"a", "c">>, !.amount = 4] }

\* the sessions the export handler may find
ExportSessions ==
    { NoUser,
      [role |-> "admin", username |-> "Administrator", departmentFilter |-> Undefined],
      [role |-> "department", username |-> "A", departmentFilter |-> "A"] }

-----------------------------------------------------------------------------
(* One call of a pure function: pc = "ready" with the arguments in call, then        *)
(* pc = "done" with the return value in ret                                           *)

FnInit(calls) ==
    /\ Constructed
    /\ pc = "ready"
    /\ call \in calls
    /\ ret = <<>>

Return(value) ==
    /\ pc' = "done"
    /\ ret' = value
    /\ UNCHANGED <<call, appVars, envVars>>

CallMapProductCategory ==
    /\ pc = "ready" /\ call.fn = "mapProductCategory"
    /\ Return(mapProductCategory(call.productName))

CallProcessData ==
    /\ pc = "ready" /\ call.fn = "processData"
    /\ Return(processData(call.rawData))

CallFilterData ==
    /\ pc = "ready" /\ call.fn = "filterData"
    /\ Return(filterData(call.data, call.filters, call.deptConstraint))

CallAggregateByField ==
    /\ pc = "ready" /\ call.fn = "aggregateByField"
    /\ Return(aggregateByField(call.data, call.field))

CallGetTrendData ==
    /\ pc = "ready" /\ call.fn = "getTrendData"
    /\ Return(getTrendData(call.data))

UtcOffsets == {-5, 0, 8}

\* the classifier and the normalizer, under every configured rule list and time zone
ClassifyCalls ==
    { [fn |-> "mapProductCategory", productName |-> n] : n \in ProductNames }
        \cup { [fn |-> "processData", rawData |-> d] : d \in SeqsUpTo(RawItems, MaxLen) }

InitClassify ==
    /\ FnInit(ClassifyCalls)
    /\ CATEGORY_RULES \in RuleLists
    /\ utcOffset \in (IF call.fn = "processData" THEN UtcOffsets ELSE {0})

NextClassify == CallMapProductCategory \/ CallProcessData

SpecClassify == InitClassify /\ [][NextClassify]_vars

\* the filter states with the constraints they are called with: every constraint with
\* the department filters, no constraint or department A with the others
FilterArgs ==
    (DeptFilters \X DeptConstraints) \cup ((DateFilters \cup FacetFilters) \X {Undefined, "A"})

\* records for the date range with values that are no numbers: two years, and a record
\* whose date was no date
NaNItems ==
    { BaseItem, [BaseItem EXCEPT !.year = 2024], [BaseItem EXCEPT !.year = NaN, !.month = NaN] }

\* the initial filter state with each year bound left empty or set
NaNFilters ==
    { [InitialFilters EXCEPT !.startYear = a, !.endYear = b] :
        a \in {<<>>, NumToString(2024)}, b \in {<<>>, NumToString(2023)} }

\* records for the text filters: names that contain, equal or differ in case from the
\* texts of TextFilters
TextItems ==
    { [BaseItem EXCEPT !.productName = n] : n \in {<<"J", "Y">>, <<"j", "Y">>, <<"Y">>} }
        \cup { [BaseItem EXCEPT !.customerName = n] : n \in {<<"a", "c">>, <<"C">>} }

\* one text filter set to the empty text, a one-character text or a two-character text
TextFilters ==
    { [WideOpen EXCEPT !.productName = t] : t \in {<<>>, <<"J">>, <<"Y">>, <<"J", "Y">>, <<"Y", "J">>} }
        \cup { [WideOpen EXCEPT !.customerName = t] : t \in {<<"c">>, <<"a", "c">>, <<"c", "a">>} }

FilterCalls ==
    { [fn |-> "filterData", data |-> d, filters |-> a[1], deptConstraint |-> a[2]] :
        d \in SeqsUpTo(FilterItems, MaxLen), a \in FilterArgs }

TextCalls ==
    { [fn |-> "filterData", data |-> d, filters |-> f, deptConstraint |-> Undefined] :
        d \in SeqsUpTo(TextItems, MaxLen), f \in TextFilters }

NaNCalls ==
    { [fn |-> "filterData", data |-> d, filters |-> f, deptConstraint |-> Undefined] :
        d \in SeqsUpTo(NaNItems, MaxLen), f \in NaNFilters }

InitFilter ==
    /\ FnInit(FilterCalls) \/ FnInit(TextCalls) \/ FnInit(NaNCalls)
    /\ CATEGORY_RULES = ExampleRules
    /\ utcOffset = 0

NextFilter == CallFilterData

SpecFilter == InitFilter /\ [][NextFilter]_vars

AggCalls ==
    { [fn |-> "aggregateByField", data |-> d, field |-> f] :
        d \in SeqsUpTo(AggItems, MaxAggLen), f \in AggFields }

InitAgg ==
    /\ FnInit(AggCalls)
    /\ CATEGORY_RULES = ExampleRules
    /\ utcOffset = 0

NextAgg == CallAggregateByField

SpecAgg == InitAgg /\ [][NextAgg]_vars

TrendCalls == { [fn |-> "getTrendData", data |-> d] : d \in SeqsUpTo(TrendItems, MaxAggLen) }

InitTrend ==
    /\ FnInit(TrendCalls)
    /\ CATEGORY_RULES = ExampleRules
    /\ utcOffset = 0

NextTrend == CallGetTrendData

SpecTrend == InitTrend /\ [][NextTrend]_vars

CallHandleExportAggregated ==
    /\ pc = "ready" /\ call.fn = "handleExportAggregated"
    /\ Return(handleExportAggregated(call.session, call.filtered))

ExportCalls ==
    { [fn |-> "handleExportAggregated", session |-> u, filtered |-> d] :
        u \in ExportSessions, d \in SeqsUpTo(ExportItems, MaxAggLen) }

InitExport ==
    /\ FnInit(ExportCalls)
    /\ CATEGORY_RULES = ExampleRules
    /\ utcOffset = 0

NextExport == CallHandleExportAggregated

SpecExport == InitExport /\ [][NextExport]_vars

-----------------------------------------------------------------------------
(* App.tsx: datasets and files *)

\* most FileReader reads in flight at a time
MaxReads == 2

\* generateMockData(1000): two departments, two years
MockData ==
    << [BaseRaw EXCEPT !.department = "A", !.date = <<"iso", 2023, 6, 15>>, !.amount = 2],
       [BaseRaw EXCEPT !.department = "B", !.date = <<"iso", 2024, 3, 10>>, !.amount = 1] >>

MockDatasets == {MockData}

\* new Date().toISOString().split('T')[0]
TodayIso == <<"iso", 2025, 7, 1>>

UNKNOWN_CUSTOMER == <<"u", "c">>

UNKNOWN_PRODUCT == <<"u", "p">>

\* a row of an imported file is a record that may lack keys; the model writes one key
\* for a column and its Chinese header
Without(item, keys) == [k \in DOMAIN item \ keys |-> item[k]]

\* a valid row of department B
CleanRow == [BaseRaw EXCEPT !.department = "B", !.date = <<"iso", 2025, 2, 3>>, !.amount = 3]

\* rows that lack mandatory or optional fields, or carry a date text that is no date
\* (<<"bad">>), or a date text that begins with T (<<"T">>)
NamelessRow == Without([BaseRaw EXCEPT !.date = <<"iso", 2025, 2, 3>>], {"productName", "amount"})

BadDateRow == [BaseRaw EXCEPT !.department = "B", !.date = <<"bad">>, !.amount = 3]

TimeOnlyRow == [BaseRaw EXCEPT !.date = <<"T">>]

DatelessRow == Without(BaseRaw, {"date", "companyName"})

\* the files the user may select.  parse is what JSON.parse or XLSX.read makes of the
\* file: "error" when it throws, "object" for a JSON root that is no array, "rows" for
\* the rows in rows
Files ==
    { [ext |-> "json", parse |-> "rows", rows |-> <<CleanRow>>],
      [ext |-> "xlsx", parse |-> "rows",
       rows |-> <<NamelessRow, BadDateRow, TimeOnlyRow, DatelessRow>>],
      [ext |-> "json", parse |-> "rows", rows |-> <<TimeOnlyRow>>],
      [ext |-> "json", parse |-> "error", rows |-> <<>>],
      [ext |-> "json", parse |-> "object", rows |-> <<>>],
      [ext |-> "xlsx", parse |-> "error", rows |-> <<>>],
      [ext |-> "txt",  parse |-> "error", rows |-> <<>>] }

-----------------------------------------------------------------------------
(* App.tsx: updateData, processImportedData *)

\* the setFilters updater of updateData
FiltersAfterUpdate(prev, availYears) ==
    IF Len(availYears) > 0
    THEN LET latestYear == NumberToString(availYears[Len(availYears)])
         IN  [prev EXCEPT !.startYear = latestYear, !.endYear = latestYear,
                          !.startMonth = <<"1">>, !.endMonth = <<"1", "2">>,
                          !.businessUnit = "All", !.department = "All",
                          !.salesperson = "All", !.category = "All",
                          !.subCategory = "All", !.customerName = <<>>,
                          !.productName = <<>>]
    ELSE prev

updateData(data) ==
    LET processed  == processData(data)
        availYears == getAvailableYears(processed)
    IN  /\ rawData' = data
        /\ processedData' = processed
        /\ years' = availYears
        /\ filters' = FiltersAfterUpdate(filters, availYears)

\* item[key] || fallback, where falsy is the falsy value of the field's type
FieldOr(item, key, falsy, fallback) ==
    IF key \in DOMAIN item /\ item[key] # falsy THEN item[key] ELSE fallback

\* dateStr.split('T')[0]: the text before the first T
SplitT(dateStr) == IF dateStr = <<"T">> THEN <<"empty">> ELSE dateStr

\* one element of processImportedData's map
MapImported(item) ==
    LET dateStr   == FieldOr(item, "date", <<"empty">>, <<"empty">>)
        finalDate == IF dateStr # <<"empty">> THEN SplitT(dateStr) ELSE TodayIso
    IN  [ businessUnit |-> FieldOr(item, "businessUnit", "", ""),
          department   |-> FieldOr(item, "department", "", ""),
          salesperson  |-> FieldOr(item, "salesperson", "", ""),
          date         |-> finalDate,
          customerName |-> FieldOr(item, "customerName", <<>>, UNKNOWN_CUSTOMER),
          companyName  |-> FieldOr(item, "companyName", "", ""),
          sku          |-> FieldOr(item, "sku", "", ""),
          productName  |-> FieldOr(item, "productName", <<>>, UNKNOWN_PRODUCT),
          quantity     |-> FieldOr(item, "quantity", 0, 0),
          amount       |-> FieldOr(item, "amount", 0, 0) ]

\* d.productName && d.date && d.amount !== undefined
IsValidImported(d) == d.productName # <<>> /\ d.date # <<"empty">>

\* the import with no test of validData.length
processImportedDataUnguarded(rows) ==
    LET mappedData == [i \in 1..Len(rows) |-> MapImported(rows[i])]
        validData  == SelectSeq(mappedData, IsValidImported)
    IN  updateData(validData) /\ isCustomData' = TRUE

processImportedData(rows) ==
    LET mappedData == [i \in 1..Len(rows) |-> MapImported(rows[i])]
        validData  == SelectSeq(mappedData, IsValidImported)
    IN  IF Len(validData) > 0
        THEN updateData(validData) /\ isCustomData' = TRUE
        ELSE UNCHANGED <<rawData, processedData, years, filters, isCustomData>>

-----------------------------------------------------------------------------
(* App.tsx: the handlers *)

LoginNames == {"", "admin", "A"}

Passwords == {"", "admin", "abcd1234"}

DEPT_PASSWORD == "abcd1234"

\* onChange of the account input of the login form
SetLoginUser(v) ==
    /\ user = NoUser
    /\ loginUser' = v
    /\ UNCHANGED <<user, loginPass, rawData, processedData, isCustomData, years, filters, reads, envVars, fnVars>>

\* onChange of the password input of the login form
SetLoginPass(v) ==
    /\ user = NoUser
    /\ loginPass' = v
    /\ UNCHANGED <<user, loginUser, rawData, processedData, isCustomData, years, filters, reads, envVars, fnVars>>

\* the login that takes any non-empty password for a department session
handleLoginAnyPassword ==
    /\ user = NoUser
    /\ IF loginUser = "admin" /\ loginPass = "admin"
       THEN /\ user' = [role |-> "admin", username |-> "Administrator", departmentFilter |-> Undefined]
            /\ UNCHANGED filters
       ELSE IF loginPass # ""
       THEN /\ user' = [role |-> "department", username |-> loginUser, departmentFilter |-> loginUser]
            /\ filters' = [filters EXCEPT !.department = loginUser]
       ELSE UNCHANGED <<user, filters>>
    /\ UNCHANGED <<loginUser, loginPass, rawData, processedData, isCustomData, years, reads, envVars, fnVars>>

handleLogin ==
    /\ user = NoUser
    /\ IF loginUser = "admin" /\ loginPass = "admin"
       THEN /\ user' = [role |-> "admin", username |-> "Administrator", departmentFilter |-> Undefined]
            /\ UNCHANGED filters
       ELSE IF loginPass = DEPT_PASSWORD
       THEN /\ user' = [role |-> "department", username |-> loginUser, departmentFilter |-> loginUser]
            /\ filters' = [filters EXCEPT !.department = loginUser]
       ELSE UNCHANGED <<user, filters>>
    /\ UNCHANGED <<loginUser, loginPass, rawData, processedData, isCustomData, years, reads, envVars, fnVars>>

\* a logout that puts every facet and text filter back to its initial value
handleLogoutResetsFilters ==
    /\ user # NoUser
    /\ user' = NoUser
    /\ loginUser' = ""
    /\ loginPass' = ""
    /\ filters' = [filters EXCEPT !.businessUnit = "All", !.department = "All",
                                  !.salesperson = "All", !.category = "All",
                                  !.subCategory = "All", !.customerName = <<>>,
                                  !.productName = <<>>]
    /\ UNCHANGED <<rawData, processedData, isCustomData, years, reads, envVars, fnVars>>

handleLogout ==
    /\ user # NoUser
    /\ user' = NoUser
    /\ loginUser' = ""
    /\ loginPass' = ""
    /\ filters' = [filters EXCEPT !.department = "All"]
    /\ UNCHANGED <<rawData, processedData, isCustomData, years, reads, envVars, fnVars>>

\* the records the option lists are built from
OptionBase ==
    IF Truthy(user.departmentFilter)
    THEN SelectSeq(processedData, LAMBDA d : d.department = user.departmentFilter)
    ELSE processedData

AdminFields == {"businessUnit", "department"}

\* the entries of a SearchableSelect: 'All', then the non-empty values of the field
FacetOptions(field) ==
    {"All"} \cup ({OptionBase[i][field] : i \in 1..Len(OptionBase)} \ {""})

\* the SearchableSelects the model's user picks values in: the two that only an admin
\* has and one of the three that every role has
EditedFacets == {"businessUnit", "department", "category"}

\* the months the model's user picks among the twelve options
PickedMonths == {12}

\* the texts the model's user types into the search inputs
TypedTexts == [customerName |-> {<<>>, <<"c">>}, productName |-> {<<>>}]

SetFilterTo(field, v) ==
    /\ filters' = [filters EXCEPT ![field] = v]
    /\ UNCHANGED <<user, loginUser, loginPass, rawData, processedData, isCustomData, years, reads, envVars, fnVars>>

\* onChange of the year selects: the options are the available years
SetYear(field, i) ==
    /\ user # NoUser
    /\ i \in 1..Len(years)
    /\ SetFilterTo(field, NumberToString(years[i]))

\* onChange of the month selects
SetMonth(field, m) ==
    /\ user # NoUser
    /\ SetFilterTo(field, NumberToString(m))

\* onChange of a SearchableSelect; business unit and department are rendered for admin only
SetFacet(field, v) ==
    /\ user # NoUser
    /\ field \in AdminFields => user.role = "admin"
    /\ v \in FacetOptions(field)
    /\ SetFilterTo(field, v)

\* onChange of the search inputs
SetSearch(field, v) ==
    /\ user # NoUser
    /\ SetFilterTo(field, v)

\* the reset button: rendered for admin while the custom-data flag is set
loadMockData ==
    /\ user.role = "admin"
    /\ isCustomData
    /\ \E data \in MockDatasets : updateData(data)
    /\ isCustomData' = FALSE
    /\ UNCHANGED <<user, loginUser, loginPass, reads, envVars, fnVars>>

\* onChange of the file input, rendered for admin only: starts a read, or refuses the
\* extension at once
handleFileUpload(file) ==
    /\ user.role = "admin"
    /\ IF file.ext \in {"json", "xlsx", "xls"}
       THEN BagCardinality(reads) < MaxReads /\ reads' = reads (+) SetToBag({file})
       ELSE UNCHANGED reads
    /\ UNCHANGED <<user, loginUser, loginPass, rawData, processedData, isCustomData, years, filters, envVars, fnVars>>

\* an onload whose result is dropped while another read is still in flight
readerOnloadUnlessOthersPending(file) ==
    /\ BagIn(file, reads)
    /\ reads' = reads (-) SetToBag({file})
    /\ IF file.parse \in {"error", "object"} \/ BagCardinality(reads) > 1
       THEN UNCHANGED <<rawData, processedData, years, filters, isCustomData>>
       ELSE processImportedData(file.rows)
    /\ UNCHANGED <<user, loginUser, loginPass, envVars, fnVars>>

\* reader.onload of one of the reads in flight, in whatever order the reads complete
readerOnload(file) ==
    /\ BagIn(file, reads)
    /\ reads' = reads (-) SetToBag({file})
    /\ IF file.parse \in {"error", "object"}
       THEN UNCHANGED <<rawData, processedData, years, filters, isCustomData>>
       ELSE processImportedData(file.rows)
    /\ UNCHANGED <<user, loginUser, loginPass, envVars, fnVars>>

\* const filteredData = useMemo(...)
filteredData ==
    IF user = NoUser THEN <<>> ELSE filterData(processedData, filters, user.departmentFilter)

\* after the mount effect has run loadMockData
Init ==
    /\ user = NoUser
    /\ loginUser = ""
    /\ loginPass = ""
    /\ reads = EmptyBag
    /\ CATEGORY_RULES = ExampleRules
    /\ utcOffset = 8
    /\ \E data \in MockDatasets :
          /\ rawData = data
          /\ processedData = processData(data)
          /\ years = getAvailableYears(processedData)
          /\ filters = FiltersAfterUpdate(InitialFilters, years)
    /\ isCustomData = FALSE
    /\ pc = "idle"
    /\ call = <<>>
    /\ ret = <<>>

Next ==
    \/ \E v \in LoginNames : SetLoginUser(v)
    \/ \E v \in Passwords : SetLoginPass(v)
    \/ handleLogin
    \/ handleLogout
    \/ \E field \in {"startYear", "endYear"}, i \in 1..Len(years) : SetYear(field, i)
    \/ \E field \in {"startMonth", "endMonth"}, m \in PickedMonths : SetMonth(field, m)
    \/ \E field \in EditedFacets : \E v \in FacetOptions(field) : SetFacet(field, v)
    \/ \E field \in DOMAIN TypedTexts : \E v \in TypedTexts[field] : SetSearch(field, v)
    \/ loadMockData
    \/ \E file \in Files : handleFileUpload(file)
    \/ \E file \in Files : readerOnload(file)

Spec == Init /\ [][Next]_vars

-----------------------------------------------------------------------------
(* Claims about the session *)

\* C1: in a department session, whatever name was accepted with the department
\* password and whatever the filter state, every record of filteredData has the
\* session's departmentFilter as its department.
C1_DepartmentSessionSeesOnlyItsDepartment ==
    user.role = "department" =>
        \A i \in 1..Len(filteredData) : filteredData[i].department = user.departmentFilter

-----------------------------------------------------------------------------
(* Claims about filterData *)

Done(fn) == pc = "done" /\ call.fn = fn

FilterYears == {2023, 2024}

FilterMonths == {1, 2, 12}

DateKey(item) == item.year * 100 + item.month

\* every record has a year and a month that are numbers, so a linearized key
HasDateKeys(data) == \A i \in 1..Len(data) : ~IsNaN(data[i].year) /\ ~IsNaN(data[i].month)

\* C2: filterData keeps a record only if startYear*100+startMonth <= year*100+month <=
\* endYear*100+endMonth; with no other restriction in force it keeps exactly those
\* records (both bounds included, one month outside either bound excluded); and when
\* start > end the result is the empty list, returned normally.
C2_DateRangeInclusive ==
    Done("filterData") =>
        \A sy \in FilterYears, sm \in FilterMonths, ey \in FilterYears, em \in FilterMonths :
            ( /\ call.filters.startYear = NumToString(sy)
              /\ call.filters.startMonth = NumToString(sm)
              /\ call.filters.endYear = NumToString(ey)
              /\ call.filters.endMonth = NumToString(em) ) =>
                LET lo == sy * 100 + sm
                    hi == ey * 100 + em
                    InRange(item) == lo <= DateKey(item) /\ DateKey(item) <= hi
                IN  HasDateKeys(call.data) =>
                    /\ \A i \in 1..Len(ret) : InRange(ret[i])
                    /\ (lo > hi => ret = <<>>)
                    /\ (call.filters \in DateFilters /\ ~Truthy(call.deptConstraint))
                          => ret = SelectSeq(call.data, InRange)

\* a record exactly at the start bound is kept and the record of the month before, in
\* the year before, is dropped
C2_Witness ==
    /\ Done("filterData")
    /\ call.filters.startYear = NumToString(2024) /\ call.filters.startMonth = NumToString(1)
    /\ call.filters.endYear = NumToString(2024) /\ call.filters.endMonth = NumToString(2)
    /\ call.data = << [BaseItem EXCEPT !.year = 2023, !.month = 12],
                      [BaseItem EXCEPT !.year = 2024, !.month = 1] >>
    /\ ret = << [BaseItem EXCEPT !.year = 2024, !.month = 1] >>

\* C3: with a department constraint c and an explicit department filter d, a concrete
\* value other than c, filterData returns the empty list whatever the dataset.
C3_ConstraintAndFilterIntersect ==
    ( /\ Done("filterData")
      /\ Truthy(call.deptConstraint)
      /\ call.filters.department \notin {"All", ""}
      /\ call.filters.department # call.deptConstraint ) => ret = <<>>

C3_Witness ==
    /\ Done("filterData")
    /\ call.deptConstraint = "A"
    /\ call.filters.department = "B"
    /\ call.data = << BaseItem, [BaseItem EXCEPT !.department = "B"] >>
    /\ ret = <<>>

-----------------------------------------------------------------------------
(* Claims about aggregateByField *)

\* the sum of amount over the records of data at the indices in S
RECURSIVE AmountOver(_, _)
AmountOver(data, S) ==
    IF S = {} THEN 0
    ELSE LET i == CHOOSE x \in S : TRUE
         IN  data[i].amount + AmountOver(data, S \ {i})

TotalAmount(data) == AmountOver(data, 1..Len(data))

IndicesOf(data, field, key) == {i \in 1..Len(data) : data[i][field] = key}

\* where key first occurs in data
FirstIndex(data, field, key) ==
    CHOOSE i \in IndicesOf(data, field, key) : \A j \in IndicesOf(data, field, key) : i <= j

\* the sum of the percentages of points[1..n], as a fraction
RECURSIVE PercentageSum(_, _)
PercentageSum(points, n) ==
    IF n = 0 THEN [num |-> 0, den |-> 1]
    ELSE LET rest == PercentageSum(points, n - 1)
             p    == points[n].percentage
         IN  [num |-> rest.num * p.den + p.num * rest.den, den |-> rest.den * p.den]

PercentagesSumTo(points, k) ==
    LET sum == PercentageSum(points, Len(points)) IN sum.num = k * sum.den

\* C4: aggregateByField returns exactly one point per distinct value of the grouping
\* field, each point's value is the sum of amount over the records with that value, so
\* the values add up to the sum of amount over the input; empty input, empty output.
C4_OnePointPerKeyWithItsSum ==
    Done("aggregateByField") =>
        LET data == call.data
            keys == {data[i][call.field] : i \in 1..Len(data)}
        IN  /\ Len(ret) = Cardinality(keys)
            /\ {ret[i].name : i \in 1..Len(ret)} = keys
            /\ \A i \in 1..Len(ret) :
                  ret[i].value = AmountOver(data, IndicesOf(data, call.field, ret[i].name))
            /\ SeqSum([i \in 1..Len(ret) |-> ret[i].value]) = TotalAmount(data)
            /\ (data = <<>> => ret = <<>>)

\* three records in two departments: two points, the first the sum of two records
C4_Witness ==
    /\ Done("aggregateByField")
    /\ call.field = "department"
    /\ Len(call.data) = 3
    /\ call.data[1].department = "A" /\ call.data[1].amount = 2
    /\ call.data[2].department = "B" /\ call.data[2].amount = 1
    /\ call.data[3].department = "A" /\ call.data[3].amount = 2
    /\ Len(ret) = 2
    /\ ret[1].name = "A" /\ ret[1].value = 4
    /\ ret[2].name = "B" /\ ret[2].value = 1

C6_PercentageInRange ==
    Done("aggregateByField") =>
        \A i \in 1..Len(ret) :
            LET p == ret[i].percentage
            IN  0 <= p.num /\ p.num <= 100 * p.den

\* C7: the output of aggregateByField is sorted non-increasing by value, and groups of
\* equal value stand in the order in which their keys first occur in the input.
C7_SortedDescendingStable ==
    Done("aggregateByField") =>
        \A i, j \in 1..Len(ret) :
            i < j =>
                /\ ret[i].value >= ret[j].value
                /\ ret[i].value = ret[j].value =>
                      FirstIndex(call.data, call.field, ret[i].name)
                          < FirstIndex(call.data, call.field, ret[j].name)

\* A and C tie at 1 behind B: the output is B, A, C
C7_Witness ==
    /\ Done("aggregateByField")
    /\ call.field = "department"
    /\ Len(call.data) = 3
    /\ call.data[1].department = "A" /\ call.data[1].amount = 1
    /\ call.data[2].department = "B" /\ call.data[2].amount = 2
    /\ call.data[3].department = "C" /\ call.data[3].amount = 1
    /\ [i \in 1..Len(ret) |-> ret[i].name] = <<"B", "A", "C">>

-----------------------------------------------------------------------------
(* Claims about getTrendData *)

MonthTexts ==
    << <<"0", "1">>, <<"0", "2">>, <<"0", "3">>, <<"0", "4">>, <<"0", "5">>, <<"0", "6">>,
       <<"0", "7">>, <<"0", "8">>, <<"0", "9">>, <<"1", "0">>, <<"1", "1">>, <<"1", "2">> >>

\* C8: getTrendData returns exactly 12 points, one per month 01..12 in ascending order,
\* and a years list that is exactly the distinct years of the input in ascending order,
\* however many; every point has a number for every year of the list, 0 when the input
\* has no record of that month and year.
C8_TwelveMonthsEveryYear ==
    Done("getTrendData") =>
        LET data    == call.data
            yearSet == {data[i].year : i \in 1..Len(data)}
        IN  /\ ~ret.threw
            /\ Len(ret.chartData) = 12
            /\ \A m \in 1..12 : ret.chartData[m].month = Append(MonthTexts[m], "yue")
            /\ Len(ret.years) = Cardinality(yearSet)
            /\ {ParseInt(ret.years[i]) : i \in 1..Len(ret.years)} = yearSet
            /\ \A i, j \in 1..Len(ret.years) :
                  i < j => ParseInt(ret.years[i]) < ParseInt(ret.years[j])
            /\ \A m \in 1..12 :
                  /\ DOMAIN ret.chartData[m].values = Range(ret.years)
                  /\ \A y \in Range(ret.years) :
                        /\ ret.chartData[m].values[y] \in Int
                        /\ ~IsNaN(ret.chartData[m].values[y])
                        /\ (\A i \in 1..Len(data) : ~(data[i].month = m /\ data[i].year = ParseInt(y)))
                              => ret.chartData[m].values[y] = 0

\* records of three years in October and March: three years in order, and the months
\* without a record are 0 in every year
C8_Witness ==
    /\ Done("getTrendData")
    /\ Len(call.data) = 3
    /\ call.data[1].year = 2023 /\ call.data[1].month = 10
    /\ call.data[2].year = 2021 /\ call.data[2].month = 3
    /\ call.data[3].year = 2022 /\ call.data[3].month = 10
    /\ ret.years = <<NumToString(2021), NumToString(2022), NumToString(2023)>>
    /\ ret.chartData[10].month = <<"1", "0", "yue">>
    /\ ret.chartData[1].values[NumToString(2022)] = 0

\* C9: for every month m and every year y of the returned list, the point of m holds
\* under y the sum of amount over the records of month m and year y; so all the cells
\* together add up to the sum of amount over the input.
C9_CellIsSumOfItsRecords ==
    Done("getTrendData") =>
        LET data == call.data
            CellRecords(m, y) == {i \in 1..Len(data) : data[i].month = m /\ data[i].year = ParseInt(y)}
            RowSum(m) == SeqSum([k \in 1..Len(ret.years) |-> ret.chartData[m].values[ret.years[k]]])
        IN  /\ \A m \in 1..12 : \A y \in Range(ret.years) :
                  ret.chartData[m].values[y] = AmountOver(data, CellRecords(m, y))
            /\ SeqSum([m \in 1..12 |-> RowSum(m)]) = TotalAmount(data)

\* two records in the cell (October, 2023) and one in (March, 2023)
C9_Witness ==
    /\ Done("getTrendData")
    /\ Len(call.data) = 3
    /\ \A i \in 1..3 : call.data[i].year = 2023 /\ call.data[i].amount = 2
    /\ call.data[1].month = 10 /\ call.data[2].month = 3 /\ call.data[3].month = 10
    /\ ret.chartData[10].values[NumToString(2023)] = 4
    /\ ret.chartData[3].values[NumToString(2023)] = 2

-----------------------------------------------------------------------------
(* Claims about mapProductCategory and processData *)

\* k is a run of consecutive characters of s
IsSubstring(k, s) ==
    \/ k = <<>>
    \/ \E i, j \in 1..Len(s) : SubSeq(s, i, j) = k

\* the pair of the first rule of the configured list whose keyword is in productName,
\* the default pair when there is none
FirstMatchPair(productName) ==
    LET matching == {i \in 1..Len(CATEGORY_RULES) : IsSubstring(CATEGORY_RULES[i].keyword, productName)}
    IN  IF matching = {}
        THEN [category |-> DEFAULT_CATEGORY, subCategory |-> DEFAULT_SUB_CATEGORY]
        ELSE LET first == CHOOSE i \in matching : \A j \in matching : i <= j
             IN  [category    |-> CATEGORY_RULES[first].category,
                  subCategory |-> CATEGORY_RULES[first].subCategory]

\* C10: mapProductCategory returns the pair of the first rule, in list order, whose
\* keyword is a substring of the product name, whatever the keywords' lengths and
\* whatever matches later in the list, and the default pair when no rule matches (so
\* for the empty name); processData attaches exactly that pair to each record.
C10_FirstMatchingRuleWins ==
    /\ Done("mapProductCategory") =>
          /\ ret = FirstMatchPair(call.productName)
          /\ call.productName = <<>> =>
                ret = [category |-> DEFAULT_CATEGORY, subCategory |-> DEFAULT_SUB_CATEGORY]
    /\ Done("processData") =>
          /\ Len(ret) = Len(call.rawData)
          /\ \A i \in 1..Len(ret) :
                /\ ret[i].productName = call.rawData[i].productName
                /\ ret[i].category = FirstMatchPair(call.rawData[i].productName).category
                /\ ret[i].subCategory = FirstMatchPair(call.rawData[i].productName).subCategory

\* the short keyword J stands before the longer JY and before Y: the name JY gets J's pair
C10_Witness ==
    /\ Done("mapProductCategory")
    /\ Len(CATEGORY_RULES) = 3
    /\ CATEGORY_RULES[1].keyword = <<"J">>
    /\ CATEGORY_RULES[2].keyword = <<"J", "Y">>
    /\ call.productName = <<"J", "Y">>
    /\ ret = [category |-> "Sauce", subCategory |-> "Soy"]

\* C11: processData returns one enriched record per raw record, in the same order, and
\* for every raw record whose date is the text YYYY-MM-DD the enriched record has year
\* YYYY and month MM, for every day of the month and whatever the host's time zone.
C11_YearAndMonthOfTheDateText ==
    Done("processData") =>
        /\ Len(ret) = Len(call.rawData)
        /\ \A i \in 1..Len(ret) :
              /\ ret[i].date = call.rawData[i].date
              /\ ret[i].sku = call.rawData[i].sku
              /\ IsIsoDate(call.rawData[i].date) =>
                    /\ ret[i].year = call.rawData[i].date[2]
                    /\ ret[i].month = call.rawData[i].date[3]
                    /\ ret[i].month \in 1..12

-----------------------------------------------------------------------------
(* Claims about imports *)

\* const metrics = useMemo(...): the trend of the records on display
trendOfFilteredData == getTrendData(filteredData)

\* C12: an imported record whose date is missing or is a text that is no date never
\* makes the pipeline fail: every record of the working dataset has a month in 1..12
\* and getTrendData completes on the records on display.
C12_ImportedDatesNeverBreakThePipeline ==
    /\ \A i \in 1..Len(processedData) : processedData[i].month \in 1..12
    /\ ~trendOfFilteredData.threw

\* the rows of a parsed file that the import keeps
ValidRows(rows) == SelectSeq([i \in 1..Len(rows) |-> MapImported(rows[i])], IsValidImported)

\* the imports that fail: the extension is not supported, the file does not parse, the
\* JSON root is no array, or no row is valid after mapping
ImportFails(file) ==
    \/ file.ext \notin {"json", "xlsx", "xls"}
    \/ file.parse \in {"error", "object"}
    \/ ValidRows(file.rows) = <<>>

datasetVars == <<rawData, processedData, years, filters, isCustomData>>

\* C13: when an import fails (JSON that does not parse, a JSON root that is no array, a
\* spreadsheet that cannot be read, an unsupported extension, or zero valid records
\* after mapping), the working dataset, the years list, the filter state and the
\* custom-data flag are left as they were, at the selection of the file and at the end
\* of its read.
C13_FailedImportChangesNothing ==
    [][\A file \in Files :
          (handleFileUpload(file) \/ readerOnload(file)) /\ ImportFails(file)
              => UNCHANGED datasetVars]_vars

\* a read of a file whose only row is dropped by the mapping is in flight over a
\* custom dataset with edited filters
C13_Witness ==
    /\ \E file \in Files :
          /\ BagIn(file, reads)
          /\ file.parse = "rows" /\ file.rows # <<>> /\ ValidRows(file.rows) = <<>>
    /\ isCustomData
    /\ filters.department # "All"

\* the row has a value under key: the key is present and its value is not the empty one
HasField(item, key, empty) == key \in DOMAIN item /\ item[key] # empty

\* the row has the three mandatory fields: a product name, a date and an amount
IsComplete(item) ==
    /\ HasField(item, "productName", <<>>)
    /\ HasField(item, "date", <<"empty">>)
    /\ "amount" \in DOMAIN item

\* C14: of an imported batch, exactly the rows that have a product name, a date and an
\* amount become the working dataset, in their order; a row that lacks one of the three
\* is left out and a missing optional field alone leaves no row out.
C14_OnlyIncompleteRowsAreDropped ==
    [][\A file \in Files :
          /\ readerOnload(file)
          /\ file.parse = "rows"
          /\ \E i \in 1..Len(file.rows) : IsComplete(file.rows[i])
          => LET complete == SelectSeq(file.rows, IsComplete)
             IN  processedData' = processData([i \in 1..Len(complete) |-> MapImported(complete[i])])]_vars

-----------------------------------------------------------------------------
(* Claims about roles *)

\* C15: while a department session is active the working dataset is never replaced:
\* no step taken in a department session changes processedData or the custom-data
\* flag, the end of a file read that an earlier admin session started included.
C15_DepartmentSessionNeverReplacesData ==
    [][user.role = "department" => UNCHANGED <<rawData, processedData, isCustomData>>]_vars

\* C16: in every state with an active department session, filters.department is the
\* session's department value: login sets it and nothing changes it before logout.
C16_DepartmentFilterIsTheSessionsDepartment ==
    user.role = "department" => filters.department = user.departmentFilter

-----------------------------------------------------------------------------
(* Claims about the dataset state *)

\* C17: processedData is processData of the one raw dataset in rawData; years is the
\* list of the distinct years of processedData in ascending order; and once a dataset
\* with at least one year is installed, filters.startYear and filters.endYear are
\* entries of the years list.
C17_DatasetYearsAndFiltersAgree ==
    /\ processedData = processData(rawData)
    /\ Range(years) = {processedData[i].year : i \in 1..Len(processedData)}
    /\ \A i, j \in 1..Len(years) : i < j => JsLt(years[i], years[j])
    /\ years # <<>> =>
          LET yearTexts == {NumberToString(years[i]) : i \in 1..Len(years)}
          IN  filters.startYear \in yearTexts /\ filters.endYear \in yearTexts

-----------------------------------------------------------------------------
(* Claims about login *)

IsAdminLogin == loginUser = "admin" /\ loginPass = "admin"

\* the credentials in the form are admin/admin or any name with the department password
CredentialsAccepted == IsAdminLogin \/ loginPass = DEPT_PASSWORD

\* C18: a login with credentials that are neither admin/admin nor a name with the
\* department password changes no state: no session, filters and dataset as before.  A
\* login that succeeds gives an admin session only for admin/admin, and otherwise a
\* department session whose department constraint is the entered name.
C18_LoginOutcome ==
    [][handleLogin =>
          /\ ~CredentialsAccepted => user' = NoUser /\ UNCHANGED <<filters, datasetVars>>
          /\ CredentialsAccepted =>
                /\ user'.role = "admin" <=> IsAdminLogin
                /\ ~IsAdminLogin => /\ user'.role = "department"
                                    /\ user'.departmentFilter = loginUser
                /\ UNCHANGED <<rawData, processedData, years, isCustomData>>]_vars

\* the name admin entered with the department password has opened a department
\* session constrained to "admin"
C18_Witness ==
    /\ user.role = "department"
    /\ user.departmentFilter = "admin"
    /\ loginUser = "admin" /\ loginPass = DEPT_PASSWORD

-----------------------------------------------------------------------------
(* Claims about the facets of filterData *)

\* the filter value asks for one value of the facet
Restricts(wanted) == wanted # "All" /\ wanted # ""

\* nothing but the facet field can reject a record of the call: no constraint, and the
\* filter state is the wide open one but for field
OnlyFacet(field) ==
    /\ call.deptConstraint \in {Undefined, ""}
    /\ call.filters = [WideOpen EXCEPT ![field] = call.filters[field]]

\* C19: for each of the facets businessUnit, department, salesperson, category and
\* subCategory, filterData imposes no restriction when the filter value is 'All' or
\* empty, and otherwise keeps a record only if the record's field equals the filter
\* value exactly.
C19_FacetIsExactMatchOrOpen ==
    Done("filterData") =>
        \A field \in FacetFields :
            LET wanted == call.filters[field]
            IN  /\ Restricts(wanted) => \A i \in 1..Len(ret) : ret[i][field] = wanted
                /\ OnlyFacet(field) =>
                      ret = SelectSeq(call.data, LAMBDA d : Restricts(wanted) => d[field] = wanted)

\* the category filter Oil keeps the Oil record of two records and drops the other
C19_Witness ==
    /\ Done("filterData")
    /\ OnlyFacet("category") /\ call.filters.category = "Oil"
    /\ Len(call.data) = 2
    /\ call.data[1].category = "Sauce" /\ call.data[2].category = "Oil"
    /\ ret = <<call.data[2]>>

\* C20: filtering is idempotent: filtering the result of filterData(D, F, c) again
\* with the same filter state F and the same constraint c returns it unchanged.
C20_FilterIdempotent ==
    Done("filterData") => filterData(ret, call.filters, call.deptConstraint) = ret

\* a call that kept one of its two records and dropped the other under a date range
\* and a department constraint
C20_Witness ==
    /\ Done("filterData")
    /\ Len(call.data) = 2 /\ Len(ret) = 1
    /\ call.deptConstraint = "A"
    /\ call.filters.startYear = NumToString(2024)
    /\ call.data[1].year = 2023 /\ ret[1] = call.data[2]
    /\ filterData(ret, call.filters, call.deptConstraint) = <<call.data[2]>>

-----------------------------------------------------------------------------
(* Claims about the shape of filterData's result *)

\* the elements of s at the positions in S, in the order of s, from position i on
RECURSIVE PickFrom(_, _, _)
PickFrom(s, S, i) ==
    IF i > Len(s) THEN <<>>
    ELSE (IF i \in S THEN <<s[i]>> ELSE <<>>) \o PickFrom(s, S, i + 1)

\* sub is s with some positions left out
IsSubsequence(sub, s) == \E S \in SUBSET (1..Len(s)) : sub = PickFrom(s, S, 1)

\* C21: filterData returns a subsequence of its input: every returned record is an
\* input record, the input's relative order is kept, no record is returned twice, and
\* the call leaves the input array and its records as they were.
C21_ResultIsSubsequenceOfInput ==
    [][CallFilterData => /\ IsSubsequence(ret', call.data)
                         /\ call' = call]_vars

\* two different records, the later month first, both kept in the input's order
C21_Witness ==
    /\ Done("filterData")
    /\ Len(call.data) = 2
    /\ call.data[1].month = 12 /\ call.data[2].month = 1
    /\ call.data[1].year = call.data[2].year
    /\ ret = call.data

-----------------------------------------------------------------------------
(* Claims about the text filters of filterData *)

TextFields == {"customerName", "productName"}

\* nothing but the text filter of field can reject a record of the call
OnlyText(field) ==
    /\ call.deptConstraint \in {Undefined, ""}
    /\ call.filters = [WideOpen EXCEPT ![field] = call.filters[field]]

\* C22: when the customerName (productName) text filter is non-empty, filterData keeps
\* a record only if its customerName (productName) contains the filter text as a run
\* of the same characters, case included; containing it is enough, being equal to it
\* is not required; the empty text filter imposes no restriction.
C22_TextFilterIsSubstringMatch ==
    Done("filterData") =>
        \A field \in TextFields :
            LET wanted == call.filters[field]
            IN  /\ wanted # <<>> => \A i \in 1..Len(ret) : IsSubstring(wanted, ret[i][field])
                /\ OnlyText(field) =>
                      ret = SelectSeq(call.data,
                                      LAMBDA d : wanted = <<>> \/ IsSubstring(wanted, d[field]))

\* the product filter J keeps the name JY, which contains it without being equal to
\* it, and drops the name jY
C22_Witness ==
    /\ Done("filterData")
    /\ OnlyText("productName") /\ call.filters.productName = <<"J">>
    /\ Len(call.data) = 2
    /\ call.data[1].productName = <<"J", "Y">> /\ call.data[2].productName = <<"j", "Y">>
    /\ ret = <<call.data[1]>>

-----------------------------------------------------------------------------
(* Claims about the export *)

\* the six aggregations in the claimed order: department, salesperson, category,
\* sub-category, customer, product
SectionFields ==
    <<"department", "salesperson", "category", "subCategory", "customerName", "productName">>

SectionStats(k) == aggregateByField(call.filtered, SectionFields[k])

\* the position of the title line of section k in a document whose sections are a
\* title, a header, one row per point and two blank lines
RECURSIVE SectionStart(_)
SectionStart(k) ==
    IF k = 1 THEN 2 ELSE SectionStart(k - 1) + Len(SectionStats(k - 1)) + 4

\* C23: the export document starts with the byte-order marker and holds exactly six
\* sections in the order department, salesperson, category, sub-category, customer,
\* product; each section is a title line, a column-header line and one row per point
\* of the aggregateByField result of its field, in the result's order, ranked by
\* 1-based position.
C23_ExportDocumentLayout ==
    Done("handleExportAggregated") /\ call.session.role = "admin" =>
        /\ ret[1] = BOM
        /\ Cardinality({i \in 1..Len(ret) : ret[i][1] = "title"}) = 6
        /\ Cardinality({i \in 1..Len(ret) : ret[i][1] = "header"}) = 6
        /\ Len(ret) = SectionStart(6) + Len(SectionStats(6)) + 3
        /\ \A k \in 1..6 :
              LET at    == SectionStart(k)
                  stats == SectionStats(k)
              IN  /\ ret[at] = <<"title", ExportSections[k].title>>
                  /\ ret[at + 1][1] = "header"
                  /\ \A i \in 1..Len(stats) :
                        ret[at + 1 + i] =
                            <<"row", i, stats[i].name, stats[i].value, stats[i].percentage>>
                  /\ ret[at + 2 + Len(stats)] = <<"blank">>

\* three records of departments B, A, B: the department section ranks B first with 7,
\* then A with 2
C23_Witness ==
    /\ Done("handleExportAggregated") /\ call.session.role = "admin"
    /\ Len(call.filtered) = 3
    /\ ret[2] = <<"title", "department share">>
    /\ ret[4][2] = 1 /\ ret[4][3] = "B" /\ ret[4][4] = 7
    /\ ret[5][2] = 2 /\ ret[5][3] = "A" /\ ret[5][4] = 2
    /\ ret[8] = <<"title", "salesperson ranking">>

-----------------------------------------------------------------------------
(* Claims about logout *)

\* the fields of the filter state other than the department facet
KeptFilterFields == DOMAIN InitialFilters \ {"department"}

\* C24: handleLogout clears the session and resets the department facet to 'All' and
\* nothing else of the filter state: the date range, businessUnit, salesperson,
\* category, subCategory, customerName and productName are as before, and the next
\* login leaves them as they are too, so they are in force for the next session.
C24_LogoutResetsOnlyDepartment ==
    [][/\ handleLogout =>
             /\ user' = NoUser
             /\ filters'.department = "All"
             /\ \A field \in KeptFilterFields : filters'[field] = filters[field]
       /\ handleLogin =>
             \A field \in KeptFilterFields : filters'[field] = filters[field]]_vars

\* a department session under a businessUnit filter that only an admin can have set
C24_Witness ==
    /\ user.role = "department"
    /\ user.departmentFilter = "A"
    /\ filters.businessUnit = "BU1"
    /\ filters.department = "A"

-----------------------------------------------------------------------------
(* Claims about date bounds that are no numbers *)

\* the text of a bound that parseInt makes no number of
IsNaNText(t) == IsNaN(ParseInt(t))

StartIsNaN(f) == IsNaNText(f.startYear) \/ IsNaNText(f.startMonth)

EndIsNaN(f) == IsNaNText(f.endYear) \/ IsNaNText(f.endMonth)

RecordIsNaN(item) == IsNaN(item.year) \/ IsNaN(item.month)

\* nothing but the date range can reject a record of the call
OnlyDates ==
    /\ call.deptConstraint \in {Undefined, ""}
    /\ call.filters = [InitialFilters EXCEPT !.startYear = call.filters.startYear,
                                             !.startMonth = call.filters.startMonth,
                                             !.endYear = call.filters.endYear,
                                             !.endMonth = call.filters.endMonth]

\* C25 as stated: when a bound of the date range is not a number (startYear or endYear
\* is the empty text), or a record's year or month is not a number, the date range
\* test rejects no record.
C25_Original ==
    Done("filterData") /\ OnlyDates =>
        /\ (StartIsNaN(call.filters) \/ EndIsNaN(call.filters)) => ret = call.data
        /\ \A i \in 1..Len(call.data) : RecordIsNaN(call.data[i]) => call.data[i] \in Range(ret)

\* C25 amended: a bound that is not a number rejects nothing and the other bound
\* still applies: with both bounds no numbers no record is rejected; with one, the
\* records the other bound excludes are rejected; a record whose year or month is not
\* a number is never rejected by the date range test.
C25_NaNBoundRejectsNothingByItself ==
    Done("filterData") /\ OnlyDates =>
        LET f         == call.filters
            lo        == ParseInt(f.startYear) * 100 + ParseInt(f.startMonth)
            hi        == ParseInt(f.endYear) * 100 + ParseInt(f.endMonth)
            Passes(d) == \/ RecordIsNaN(d)
                         \/ /\ StartIsNaN(f) \/ lo <= DateKey(d)
                            /\ EndIsNaN(f) \/ DateKey(d) <= hi
        IN  /\ ret = SelectSeq(call.data, Passes)
            /\ (StartIsNaN(f) /\ EndIsNaN(f)) => ret = call.data

\* the initial filter state, both years empty: records of two years and a record
\* without a year all pass; and an end bound of 2023 under an empty start year still
\* rejects the record of 2024
C25_Witness ==
    /\ Done("filterData") /\ OnlyDates
    /\ call.filters.startYear = <<>>
    /\ Len(call.data) = 2
    /\ call.data[1].year = 2024 /\ RecordIsNaN(call.data[2])
    /\ \/ call.filters.endYear = <<>> /\ ret = call.data
       \/ call.filters.endYear = NumToString(2023) /\ ret = <<call.data[2]>>

-----------------------------------------------------------------------------
(* Claims about imports in flight *)

\* the reads in flight whose import will succeed
SucceedingReads == {file \in Files : BagIn(file, reads) /\ ~ImportFails(file)}

\* C26: with imports in flight at once, each successful read installs its own dataset
\* at the step its read completes, whatever else is in flight, in whatever order the
\* files were selected and whatever dataset is current (the mock data of a reset in
\* between included): the working dataset and the filter reset are those of the read
\* that completed last.
C26_EachCompletionInstallsItsDataset ==
    [][\A file \in Files :
          readerOnload(file) /\ ~ImportFails(file) =>
              /\ rawData' = ValidRows(file.rows)
              /\ processedData' = processData(ValidRows(file.rows))
              /\ years' = getAvailableYears(processedData')
              /\ filters' = FiltersAfterUpdate(filters, years')
              /\ isCustomData']_vars

\* two different imports that will succeed are in flight over the mock data of a reset
C26_Witness ==
    /\ Cardinality(SucceedingReads) = 2
    /\ ~isCustomData
    /\ rawData \in MockDatasets

====
